---- MODULE Spec2Model ----
(***************************************************************************)
(* Proof interchange and gating core of solana-confidential-mint:          *)
(* florin-core's proof_import / proof_verification / confidential_ops and  *)
(* its import commands, florin-zk's dto_versioning and proof_export.       *)
(*                                                                         *)
(* Encodings.                                                              *)
(*  - Option<T>: None is <<>>, Some(x) is <<x>>.                           *)
(*  - Result<T, E> of a parse: Err is <<>>, Ok(x) is <<x>>.                *)
(*  - A version string is the sequence of its '.'-separated parts, each    *)
(*    part a string ("1.0.0" is <<"1","0","0">>).                          *)
(*  - A timestamp string is a record: rfc3339 tells whether the text is    *)
(*    well-formed RFC 3339, secs is the instant it denotes (in seconds).   *)
(*  - The data string is a record: b64 tells whether the text is valid     *)
(*    base64, json whether the decoded bytes are a SerializableProofData   *)
(*    JSON document, len the length of its binary_data, sound whether the  *)
(*    bytes are a proof a cryptographic verifier would accept.             *)
(***************************************************************************)
EXTENDS Integers, Sequences, FiniteSets, TLC

VARIABLES
    proof,      \* the envelope in hand (ImportableProof / ExportableProof)
    config,     \* the caller's VerificationConfig
    now,        \* Utc::now(), seconds
    result,     \* outcome of the last verify_proof call
    calledAt,   \* instant of the last verify_proof call (Option)
    gate,       \* outcome of the last version-compatibility check
    ledger,     \* transactions submitted to the ledger
    opStatus,   \* outcome of the last ledger operation
    upgradeRet, \* outcome of the last upgrade_proof_to_current_version call
    file,       \* the envelope file on disk
    imported,   \* outcome of the last import of the file
    flow        \* the running import-transfer-proof / import-withdraw-proof command

vars == <<proof, config, now, result, calledAt, gate, ledger, opStatus,
          upgradeRet, file, imported, flow>>

----------------------------------------------------------------------------
(* Program constants *)

\* VerificationConfig::default().max_proof_age_seconds
DEFAULT_MAX_PROOF_AGE_SECONDS == 3600

\* the structural floor on binary_data, `proof_data.len() < 32`
MIN_PROOF_DATA_LEN == 32

\* dto_versioning.rs: CURRENT_DTO_VERSION = "1.0.0", as (major, minor, patch)
CURRENT_DTO_VERSION == <<1, 0, 0>>

\* dto_versioning.rs: MIN_SUPPORTED_DTO_VERSION = "1.0.0"
MIN_SUPPORTED_DTO_VERSION == <<1, 0, 0>>

\* CURRENT_DTO_VERSION.to_string(), as the parts of the text
CURRENT_DTO_VERSION_TEXT == <<"1", "0", "0">>

----------------------------------------------------------------------------
(* Bounds and input domains *)

\* at most this many transactions are submitted in one behaviour
MaxLedger == 2

\* width in bits of the machine integers that carry max_proof_age_seconds
\* (u64 and i64, scaled down)
IntBits == 24

\* u64::MAX and i64::MAX at that width
U64_MAX == 2^IntBits - 1
I64_MAX == 2^(IntBits - 1) - 1

None == <<>>
Some(x) == <<x>>

\* str::parse::<u32>() on one part of a version string: the decimal texts the
\* model uses, everything else fails to parse
DecimalTexts == {"0", "1", "2", "9"}
DecimalValue(s) ==
    CASE s = "0" -> 0
      [] s = "1" -> 1
      [] s = "2" -> 2
      [] s = "9" -> 9

ParseU32(s) == IF s \in DecimalTexts THEN Some(DecimalValue(s)) ELSE None

\* version strings: "1.0.0", "1.0.1", "0.9.9", "2.0.0", "1.x.y", "x.0.0", "1.0"
Versions ==
    { <<"1", "0", "0">>, <<"1", "0", "1">>, <<"0", "9", "9">>,
      <<"2", "0", "0">>, <<"1", "x", "y">>, <<"x", "0", "0">>, <<"1", "0">> }

ProofTypes ==
    {"Transfer", "Withdraw", "PubkeyValidity", "TransferWithProof", "WithdrawWithProof"}

\* instants of the wall clock, in seconds
Clock == {0, 3600, 7200, 7201, 10801}

\* timestamp strings: a well-formed one denoting instant 3600, and one that
\* is not RFC 3339
Timestamps ==
    { [rfc3339 |-> TRUE, secs |-> 3600], [rfc3339 |-> FALSE, secs |-> 0] }

\* lengths of binary_data in a well-formed payload
PayloadLens == {0, 31, 32, 64}

\* only binary_data of full length can be a sound proof
Payloads ==
    { [b64 |-> FALSE, json |-> FALSE, len |-> 0, sound |-> FALSE],
      [b64 |-> TRUE, json |-> FALSE, len |-> 0, sound |-> FALSE] }
    \cup { [b64 |-> TRUE, json |-> TRUE, len |-> n, sound |-> FALSE] : n \in PayloadLens }
    \cup { [b64 |-> TRUE, json |-> TRUE, len |-> 64, sound |-> TRUE] }

Addresses == {None, Some("A")}
Amounts == {None, Some(100)}

\* the amount argument of a ledger operation
OpAmounts == {100, 200}

ProofMetadata ==
    [ source_address : Addresses,
      destination_address : {None, Some("B")},
      mint_address : {None},
      amount : Amounts,
      timestamp : Timestamps ]

ImportableProof ==
    [ version : Versions,
      proof_id : {"id1"},
      proof_type : ProofTypes,
      zk_sdk_version : {"0.1.0"},
      data : Payloads,
      metadata : ProofMetadata ]

VerificationConfig ==
    [ max_proof_age_seconds : {3600, 7200},
      verify_crypto : BOOLEAN,
      check_version : BOOLEAN ]

DefaultConfig ==
    [ max_proof_age_seconds |-> DEFAULT_MAX_PROOF_AGE_SECONDS,
      verify_crypto |-> TRUE,
      check_version |-> TRUE ]

----------------------------------------------------------------------------
(* proof_import.rs *)

\* is_version_compatible: three parts, and the first parses to major 1
is_version_compatible(p) ==
    IF Len(p.version) # 3
    THEN FALSE
    ELSE LET major == ParseU32(p.version[1])
         IN  IF major # None THEN major[1] = 1 ELSE FALSE

\* extract_proof_binary_data: base64-decode, parse the inner record, return
\* binary_data (here its length); Err is None
extract_proof_binary_data(p) ==
    IF ~p.data.b64 THEN None
    ELSE IF ~p.data.json THEN None
    ELSE Some(p.data.len)

\* validate_proof: Ok or the error text
validate_proof(p) ==
    IF ~is_version_compatible(p) THEN "Err: Incompatible proof version"
    ELSE IF p.proof_type \in {"Transfer", "TransferWithProof"}
        THEN IF p.metadata.source_address = None
                 THEN "Err: Missing source address in transfer proof"
             ELSE IF p.metadata.destination_address = None
                 THEN "Err: Missing destination address in transfer proof"
             ELSE IF p.metadata.amount = None
                 THEN "Err: Missing amount in transfer proof"
             ELSE "Ok"
    ELSE IF p.proof_type \in {"Withdraw", "WithdrawWithProof"}
        THEN IF p.metadata.source_address = None
                 THEN "Err: Missing source address in withdraw proof"
             ELSE IF p.metadata.amount = None
                 THEN "Err: Missing amount in withdraw proof"
             ELSE "Ok"
    ELSE "Ok"

----------------------------------------------------------------------------
(* proof_verification.rs *)

NoMessage == [what |-> "", amount |-> 0, from |-> "", to |-> ""]

Err(kind, detail) ==
    [tag |-> kind, is_valid |-> FALSE, detail |-> detail, message |-> NoMessage]

Ok(msg) ==
    [tag |-> "Ok", is_valid |-> TRUE, detail |-> "", message |-> msg]

NoResult == [tag |-> "None", is_valid |-> FALSE, detail |-> "", message |-> NoMessage]

unwrap_or(o, d) == IF o = None THEN d ELSE o[1]

\* verify_transfer_proof without the destination_address check
verify_transfer_proof_no_destination(p, c) ==
    IF p.metadata.source_address = None
        THEN Err("MissingMetadata", "source_address")
    ELSE IF p.metadata.amount = None
        THEN Err("MissingMetadata", "amount")
    ELSE IF c.check_version /\ ~is_version_compatible(p)
        THEN Err("InvalidVersion", "")
    ELSE LET proof_data == extract_proof_binary_data(p)
         IN  IF proof_data = None
                 THEN Err("InvalidStructure", "failed to extract proof data")
             ELSE IF proof_data[1] < MIN_PROOF_DATA_LEN
                 THEN Err("InvalidStructure", "proof data too small")
             ELSE Ok([what |-> "transfer",
                      amount |-> unwrap_or(p.metadata.amount, 0),
                      from |-> unwrap_or(p.metadata.source_address, "unknown"),
                      to |-> unwrap_or(p.metadata.destination_address, "unknown")])

\* verify_transfer_proof rejecting data of exactly the floor length
verify_transfer_proof_floor_inclusive(p, c) ==
    IF p.metadata.source_address = None
        THEN Err("MissingMetadata", "source_address")
    ELSE IF p.metadata.destination_address = None
        THEN Err("MissingMetadata", "destination_address")
    ELSE IF p.metadata.amount = None
        THEN Err("MissingMetadata", "amount")
    ELSE IF c.check_version /\ ~is_version_compatible(p)
        THEN Err("InvalidVersion", "")
    ELSE LET proof_data == extract_proof_binary_data(p)
         IN  IF proof_data = None
                 THEN Err("InvalidStructure", "failed to extract proof data")
             ELSE IF proof_data[1] <= MIN_PROOF_DATA_LEN
                 THEN Err("InvalidStructure", "proof data too small")
             ELSE Ok([what |-> "transfer",
                      amount |-> unwrap_or(p.metadata.amount, 0),
                      from |-> unwrap_or(p.metadata.source_address, "unknown"),
                      to |-> unwrap_or(p.metadata.destination_address, "unknown")])

\* verify_transfer_proof requiring mint_address too
verify_transfer_proof_requires_mint(p, c) ==
    IF p.metadata.source_address = None
        THEN Err("MissingMetadata", "source_address")
    ELSE IF p.metadata.destination_address = None
        THEN Err("MissingMetadata", "destination_address")
    ELSE IF p.metadata.amount = None
        THEN Err("MissingMetadata", "amount")
    ELSE IF p.metadata.mint_address = None
        THEN Err("MissingMetadata", "mint_address")
    ELSE IF c.check_version /\ ~is_version_compatible(p)
        THEN Err("InvalidVersion", "")
    ELSE LET proof_data == extract_proof_binary_data(p)
         IN  IF proof_data = None
                 THEN Err("InvalidStructure", "failed to extract proof data")
             ELSE IF proof_data[1] < MIN_PROOF_DATA_LEN
                 THEN Err("InvalidStructure", "proof data too small")
             ELSE IF c.verify_crypto /\ proof_data[1] = 0
                 THEN Err("VerificationFailed", "")
             ELSE Ok([what |-> "transfer",
                      amount |-> unwrap_or(p.metadata.amount, 0),
                      from |-> unwrap_or(p.metadata.source_address, "unknown"),
                      to |-> unwrap_or(p.metadata.destination_address, "unknown")])

\* verify_transfer_proof with a floor of 64 bytes
verify_transfer_proof_floor_64(p, c) ==
    IF p.metadata.source_address = None
        THEN Err("MissingMetadata", "source_address")
    ELSE IF p.metadata.destination_address = None
        THEN Err("MissingMetadata", "destination_address")
    ELSE IF p.metadata.amount = None
        THEN Err("MissingMetadata", "amount")
    ELSE IF c.check_version /\ ~is_version_compatible(p)
        THEN Err("InvalidVersion", "")
    ELSE LET proof_data == extract_proof_binary_data(p)
         IN  IF proof_data = None
                 THEN Err("InvalidStructure", "failed to extract proof data")
             ELSE IF proof_data[1] < 2 * MIN_PROOF_DATA_LEN
                 THEN Err("InvalidStructure", "proof data too small")
             ELSE IF c.verify_crypto /\ proof_data[1] = 0
                 THEN Err("VerificationFailed", "")
             ELSE Ok([what |-> "transfer",
                      amount |-> unwrap_or(p.metadata.amount, 0),
                      from |-> unwrap_or(p.metadata.source_address, "unknown"),
                      to |-> unwrap_or(p.metadata.destination_address, "unknown")])

\* verify_transfer_proof reporting data that is too small as a result that is not
\* valid instead of an error
verify_transfer_proof_soft_failure(p, c) ==
    IF p.metadata.source_address = None
        THEN Err("MissingMetadata", "source_address")
    ELSE IF p.metadata.destination_address = None
        THEN Err("MissingMetadata", "destination_address")
    ELSE IF p.metadata.amount = None
        THEN Err("MissingMetadata", "amount")
    ELSE IF c.check_version /\ ~is_version_compatible(p)
        THEN Err("InvalidVersion", "")
    ELSE LET proof_data == extract_proof_binary_data(p)
         IN  IF proof_data = None
                 THEN Err("InvalidStructure", "failed to extract proof data")
             ELSE IF proof_data[1] < MIN_PROOF_DATA_LEN
                 THEN [tag |-> "Ok", is_valid |-> FALSE, detail |-> "",
                       message |-> NoMessage]
             ELSE IF c.verify_crypto /\ proof_data[1] = 0
                 THEN Err("VerificationFailed", "")
             ELSE Ok([what |-> "transfer",
                      amount |-> unwrap_or(p.metadata.amount, 0),
                      from |-> unwrap_or(p.metadata.source_address, "unknown"),
                      to |-> unwrap_or(p.metadata.destination_address, "unknown")])

\* verify_transfer_proof with a cryptographic check that rejects unsound data
verify_transfer_proof_crypto_checked(p, c) ==
    IF p.metadata.source_address = None
        THEN Err("MissingMetadata", "source_address")
    ELSE IF p.metadata.destination_address = None
        THEN Err("MissingMetadata", "destination_address")
    ELSE IF p.metadata.amount = None
        THEN Err("MissingMetadata", "amount")
    ELSE IF c.check_version /\ ~is_version_compatible(p)
        THEN Err("InvalidVersion", "")
    ELSE LET proof_data == extract_proof_binary_data(p)
         IN  IF proof_data = None
                 THEN Err("InvalidStructure", "failed to extract proof data")
             ELSE IF proof_data[1] < MIN_PROOF_DATA_LEN
                 THEN Err("InvalidStructure", "proof data too small")
             ELSE IF c.verify_crypto /\ ~p.data.sound
                 THEN Err("VerificationFailed", "")
             ELSE Ok([what |-> "transfer",
                      amount |-> unwrap_or(p.metadata.amount, 0),
                      from |-> unwrap_or(p.metadata.source_address, "unknown"),
                      to |-> unwrap_or(p.metadata.destination_address, "unknown")])

verify_transfer_proof(p, c) ==
    IF p.metadata.source_address = None
        THEN Err("MissingMetadata", "source_address")
    ELSE IF p.metadata.destination_address = None
        THEN Err("MissingMetadata", "destination_address")
    ELSE IF p.metadata.amount = None
        THEN Err("MissingMetadata", "amount")
    ELSE IF c.check_version /\ ~is_version_compatible(p)
        THEN Err("InvalidVersion", "")
    ELSE LET proof_data == extract_proof_binary_data(p)
         IN  IF proof_data = None
                 THEN Err("InvalidStructure", "failed to extract proof data")
             ELSE IF proof_data[1] < MIN_PROOF_DATA_LEN
                 THEN Err("InvalidStructure", "proof data too small")
             ELSE IF c.verify_crypto /\ proof_data[1] = 0
                 THEN Err("VerificationFailed", "")
             ELSE Ok([what |-> "transfer",
                      amount |-> unwrap_or(p.metadata.amount, 0),
                      from |-> unwrap_or(p.metadata.source_address, "unknown"),
                      to |-> unwrap_or(p.metadata.destination_address, "unknown")])

\* verify_withdraw_proof with the transfer's metadata requirements
verify_withdraw_proof_with_destination(p, c) ==
    IF p.metadata.source_address = None
        THEN Err("MissingMetadata", "source_address")
    ELSE IF p.metadata.destination_address = None
        THEN Err("MissingMetadata", "destination_address")
    ELSE IF p.metadata.amount = None
        THEN Err("MissingMetadata", "amount")
    ELSE IF c.check_version /\ ~is_version_compatible(p)
        THEN Err("InvalidVersion", "")
    ELSE LET proof_data == extract_proof_binary_data(p)
         IN  IF proof_data = None
                 THEN Err("InvalidStructure", "failed to extract proof data")
             ELSE IF proof_data[1] < MIN_PROOF_DATA_LEN
                 THEN Err("InvalidStructure", "proof data too small")
             ELSE Ok([what |-> "withdrawal",
                      amount |-> unwrap_or(p.metadata.amount, 0),
                      from |-> unwrap_or(p.metadata.source_address, "unknown"),
                      to |-> ""])

verify_withdraw_proof(p, c) ==
    IF p.metadata.source_address = None
        THEN Err("MissingMetadata", "source_address")
    ELSE IF p.metadata.amount = None
        THEN Err("MissingMetadata", "amount")
    ELSE IF c.check_version /\ ~is_version_compatible(p)
        THEN Err("InvalidVersion", "")
    ELSE LET proof_data == extract_proof_binary_data(p)
         IN  IF proof_data = None
                 THEN Err("InvalidStructure", "failed to extract proof data")
             ELSE IF proof_data[1] < MIN_PROOF_DATA_LEN
                 THEN Err("InvalidStructure", "proof data too small")
             ELSE IF c.verify_crypto /\ proof_data[1] = 0
                 THEN Err("VerificationFailed", "")
             ELSE Ok([what |-> "withdrawal",
                      amount |-> unwrap_or(p.metadata.amount, 0),
                      from |-> unwrap_or(p.metadata.source_address, "unknown"),
                      to |-> ""])

\* DateTime::parse_from_rfc3339
parse_from_rfc3339(ts) == IF ts.rfc3339 THEN Some(ts.secs) ELSE None

\* `x as i64` for a u64 x: the same bits, so the upper half of the range
\* becomes negative
as_i64(x) == IF x > I64_MAX THEN x - 2^IntBits ELSE x

\* chrono's Duration::seconds: the duration is kept in milliseconds, and the
\* call panics ("Duration::seconds out of bounds") beyond i64::MAX / 1000
\* seconds either way; None is the panic
Duration_seconds(secs) ==
    IF secs > I64_MAX \div 1000 \/ secs < -(I64_MAX \div 1000) THEN None ELSE Some(secs)

\* is_proof_expired with an inclusive comparison
is_proof_expired_inclusive(p, c, t) ==
    LET timestamp == parse_from_rfc3339(p.metadata.timestamp)
    IN  IF timestamp # None
        THEN LET proof_age == t - timestamp[1]
                 max_age == Duration_seconds(as_i64(c.max_proof_age_seconds))
             IN  IF max_age = None THEN None ELSE Some(proof_age >= max_age[1])
        ELSE Some(FALSE)

\* is_proof_expired at wall-clock instant t: Some(bool), or None when the
\* call panics; an unparseable timestamp falls back to "not expired"
is_proof_expired(p, c, t) ==
    LET timestamp == parse_from_rfc3339(p.metadata.timestamp)
    IN  IF timestamp # None
        THEN LET proof_age == t - timestamp[1]
                 max_age == Duration_seconds(as_i64(c.max_proof_age_seconds))
             IN  IF max_age = None THEN None ELSE Some(proof_age > max_age[1])
        ELSE Some(FALSE)

\* the process aborted inside verify_proof
Panic == [tag |-> "Panic", is_valid |-> FALSE, detail |-> "Duration::seconds out of bounds",
          message |-> NoMessage]

\* verify_proof dispatching on the proof kind before looking at the age
verify_proof_dispatch_first(p, c, t) ==
    IF p.proof_type \in {"Transfer", "TransferWithProof"}
        THEN IF is_proof_expired(p, c, t) = None THEN Panic
             ELSE IF is_proof_expired(p, c, t)[1]
             THEN Err("ExpiredProof", "") ELSE verify_transfer_proof(p, c)
    ELSE IF p.proof_type \in {"Withdraw", "WithdrawWithProof"}
        THEN IF is_proof_expired(p, c, t) = None THEN Panic
             ELSE IF is_proof_expired(p, c, t)[1]
             THEN Err("ExpiredProof", "") ELSE verify_withdraw_proof(p, c)
    ELSE Err("InvalidProofType", "")

verify_proof(p, c, t) ==
    IF is_proof_expired(p, c, t) = None
        THEN Panic
    ELSE IF is_proof_expired(p, c, t)[1]
        THEN Err("ExpiredProof", "")
    ELSE IF p.proof_type \in {"Transfer", "TransferWithProof"}
        THEN verify_transfer_proof(p, c)
    ELSE IF p.proof_type \in {"Withdraw", "WithdrawWithProof"}
        THEN verify_withdraw_proof(p, c)
    ELSE Err("InvalidProofType", "")

----------------------------------------------------------------------------
(* dto_versioning.rs *)

\* semver::Version::parse on the texts the model uses: exactly three parts,
\* each a decimal number; Ok is Some(<<major, minor, patch>>)
Version_parse(v) ==
    IF Len(v) = 3 /\ \A i \in 1..3 : ParseU32(v[i]) # None
    THEN Some(<<ParseU32(v[1])[1], ParseU32(v[2])[1], ParseU32(v[3])[1]>>)
    ELSE None

\* Ord for semver::Version: major, then minor, then patch
Version_lt(a, b) ==
    \/ a[1] < b[1]
    \/ a[1] = b[1] /\ a[2] < b[2]
    \/ a[1] = b[1] /\ a[2] = b[2] /\ a[3] < b[3]

Version_le(a, b) == Version_lt(a, b) \/ a = b

\* check_version_compatibility: Result<bool>, Err is None
check_version_compatibility(p) ==
    LET proof_version == Version_parse(p.version)
    IN  IF proof_version = None
        THEN None
        ELSE Some(/\ Version_le(MIN_SUPPORTED_DTO_VERSION, proof_version[1])
                  /\ Version_le(proof_version[1], CURRENT_DTO_VERSION))

\* needs_upgrade: Result<bool>, Err is None
needs_upgrade(p) ==
    LET proof_version == Version_parse(p.version)
    IN  IF proof_version = None
        THEN None
        ELSE Some(Version_lt(proof_version[1], CURRENT_DTO_VERSION))

\* get_version_relationship: Result<Ordering>, Err is None
get_version_relationship(p) ==
    LET proof_version == Version_parse(p.version)
    IN  IF proof_version = None THEN None
        ELSE IF Version_lt(proof_version[1], CURRENT_DTO_VERSION) THEN Some("Less")
        ELSE IF proof_version[1] = CURRENT_DTO_VERSION THEN Some("Equal")
        ELSE Some("Greater")

\* upgrade_proof_to_current_version reporting success without rewriting the
\* version
upgrade_proof_to_current_version_no_write(p) ==
    IF needs_upgrade(p) = None THEN [ret |-> "Err", proof |-> p]
    ELSE IF ~needs_upgrade(p)[1] THEN [ret |-> "false", proof |-> p]
    ELSE [ret |-> "true", proof |-> p]

\* upgrade_proof_to_current_version rebuilding the envelope under a new id
upgrade_proof_to_current_version_new_id(p) ==
    IF needs_upgrade(p) = None THEN [ret |-> "Err", proof |-> p]
    ELSE IF ~needs_upgrade(p)[1] THEN [ret |-> "false", proof |-> p]
    ELSE [ret |-> "true",
          proof |-> [p EXCEPT !.version = CURRENT_DTO_VERSION_TEXT,
                              !.proof_id = "id2"]]

\* upgrade_proof_to_current_version on &mut proof: the returned Result<bool>
\* ("true", "false", "Err") and the envelope afterwards
upgrade_proof_to_current_version(p) ==
    IF needs_upgrade(p) = None THEN [ret |-> "Err", proof |-> p]
    ELSE IF ~needs_upgrade(p)[1] THEN [ret |-> "false", proof |-> p]
    ELSE LET relationship == get_version_relationship(p)
         IN  IF relationship = None THEN [ret |-> "Err", proof |-> p]
             ELSE IF relationship[1] = "Less"
                 THEN [ret |-> "true",
                       proof |-> [p EXCEPT !.version = CURRENT_DTO_VERSION_TEXT]]
             ELSE [ret |-> "false", proof |-> p]

\* is_proof_valid: the verdict under the default configuration
is_proof_valid(p, t) == verify_proof(p, DefaultConfig, t).is_valid

----------------------------------------------------------------------------
(* the envelope file: serde_json over the derived Serialize / Deserialize *)

\* serde_json values
JNull == [t |-> "null", v |-> <<>>]
JStr(s) == [t |-> "string", v |-> <<s>>]
JNum(n) == [t |-> "number", v |-> <<n>>]
JObj(o) == [t |-> "object", v |-> <<o>>]

\* Serialize for String, u64 and Option<T>
String_to_json(s) == JStr(s)
u64_to_json(n) == JNum(n)
OptionString_to_json(o) == IF o = None THEN JNull ELSE String_to_json(o[1])
OptionU64_to_json(o) == IF o = None THEN JNull ELSE u64_to_json(o[1])

\* Serialize for ProofMetadata writing the amount as text
ProofMetadata_to_json_amount_as_text(m) ==
    JObj([ source_address |-> OptionString_to_json(m.source_address),
           destination_address |-> OptionString_to_json(m.destination_address),
           mint_address |-> OptionString_to_json(m.mint_address),
           amount |-> OptionString_to_json(m.amount),
           timestamp |-> String_to_json(m.timestamp) ])

\* #[derive(Serialize)] for ProofMetadata
ProofMetadata_to_json(m) ==
    JObj([ source_address |-> OptionString_to_json(m.source_address),
           destination_address |-> OptionString_to_json(m.destination_address),
           mint_address |-> OptionString_to_json(m.mint_address),
           amount |-> OptionU64_to_json(m.amount),
           timestamp |-> String_to_json(m.timestamp) ])

\* #[derive(Serialize)] for the envelope; a unit variant is written as its name
ExportableProof_to_json(p) ==
    JObj([ version |-> String_to_json(p.version),
           proof_id |-> String_to_json(p.proof_id),
           proof_type |-> JStr(p.proof_type),
           zk_sdk_version |-> String_to_json(p.zk_sdk_version),
           data |-> String_to_json(p.data),
           metadata |-> ProofMetadata_to_json(p.metadata) ])

\* serde_json::to_string_pretty, File::create, write_all: the file afterwards
write_proof_file(p) == [kind |-> "json", root |-> Some(ExportableProof_to_json(p))]

\* the data of an exported envelope: base64 of the JSON of a
\* SerializableProofData whose binary_data is `vec![0; 64]`, a placeholder
\* that is no proof
PlaceholderData == [b64 |-> TRUE, json |-> TRUE, len |-> 64, sound |-> FALSE]

\* Utc::now().to_rfc3339() at instant t
to_rfc3339(t) == [rfc3339 |-> TRUE, secs |-> t]

\* export_transfer_proof_with_mint stamping a version the consumer does not
\* support
export_transfer_proof_with_mint_next_major(amount, source_pubkey, destination_pubkey, mint_address, t) ==
    [ version |-> <<"2", "0", "0">>,
      proof_id |-> "id1",
      proof_type |-> "Transfer",
      zk_sdk_version |-> "0.1.0",
      data |-> PlaceholderData,
      metadata |-> [ source_address |-> source_pubkey,
                     destination_address |-> destination_pubkey,
                     mint_address |-> mint_address,
                     amount |-> Some(amount),
                     timestamp |-> to_rfc3339(t) ] ]

\* export_transfer_proof_with_mint at instant t: the ExportableProof it
\* builds (the Uuid is one id, the crate version one text)
export_transfer_proof_with_mint(amount, source_pubkey, destination_pubkey, mint_address, t) ==
    [ version |-> <<"1", "0", "0">>,
      proof_id |-> "id1",
      proof_type |-> "Transfer",
      zk_sdk_version |-> "0.1.0",
      data |-> PlaceholderData,
      metadata |-> [ source_address |-> source_pubkey,
                     destination_address |-> destination_pubkey,
                     mint_address |-> mint_address,
                     amount |-> Some(amount),
                     timestamp |-> to_rfc3339(t) ] ]

\* export_withdraw_proof_with_mint at instant t
export_withdraw_proof_with_mint(amount, source_pubkey, mint_address, t) ==
    [ version |-> <<"1", "0", "0">>,
      proof_id |-> "id1",
      proof_type |-> "Withdraw",
      zk_sdk_version |-> "0.1.0",
      data |-> PlaceholderData,
      metadata |-> [ source_address |-> source_pubkey,
                     destination_address |-> None,
                     mint_address |-> mint_address,
                     amount |-> Some(amount),
                     timestamp |-> to_rfc3339(t) ] ]

\* Deserialize: a Result, None is the error
String_from_json(j) == IF j.t = "string" THEN Some(j.v[1]) ELSE None

u64_from_json(j) == IF j.t = "number" /\ j.v[1] >= 0 THEN Some(j.v[1]) ELSE None

ProofType_from_json(j) ==
    IF j.t = "string" /\ j.v[1] \in ProofTypes THEN Some(j.v[1]) ELSE None

\* what the derived Deserialize sees for a key the object does not have
JMissing == [t |-> "missing", v |-> <<>>]

\* the value of a struct field in the object
field(o, k) == IF k \in DOMAIN o THEN o[k] ELSE JMissing

\* Option<String> and Option<u64>: null reads as None, and so does a missing
\* key; for every other type a missing key is an error
OptionString_from_json(j) ==
    IF j.t \in {"null", "missing"} THEN Some(None)
    ELSE IF String_from_json(j) = None THEN None
    ELSE Some(String_from_json(j))

OptionU64_from_json(j) ==
    IF j.t \in {"null", "missing"} THEN Some(None)
    ELSE IF u64_from_json(j) = None THEN None
    ELSE Some(u64_from_json(j))

\* #[derive(Deserialize)] for ProofMetadata; unknown keys are ignored
ProofMetadata_from_json(j) ==
    IF j.t # "object" THEN None
    ELSE LET o == j.v[1]
             source_address == OptionString_from_json(field(o, "source_address"))
             destination_address == OptionString_from_json(field(o, "destination_address"))
             mint_address == OptionString_from_json(field(o, "mint_address"))
             amount == OptionU64_from_json(field(o, "amount"))
             timestamp == String_from_json(field(o, "timestamp"))
         IN  IF source_address = None \/ destination_address = None
                \/ mint_address = None \/ amount = None \/ timestamp = None
             THEN None
             ELSE Some([ source_address |-> source_address[1],
                         destination_address |-> destination_address[1],
                         mint_address |-> mint_address[1],
                         amount |-> amount[1],
                         timestamp |-> timestamp[1] ])

\* #[derive(Deserialize)] for ImportableProof; unknown keys are ignored
ImportableProof_from_json(j) ==
    IF j.t # "object" THEN None
    ELSE LET o == j.v[1]
             version == String_from_json(field(o, "version"))
             proof_id == String_from_json(field(o, "proof_id"))
             proof_type == ProofType_from_json(field(o, "proof_type"))
             zk_sdk_version == String_from_json(field(o, "zk_sdk_version"))
             data == String_from_json(field(o, "data"))
             metadata == ProofMetadata_from_json(field(o, "metadata"))
         IN  IF version = None \/ proof_id = None \/ proof_type = None
                \/ zk_sdk_version = None \/ data = None \/ metadata = None
             THEN None
             ELSE Some([ version |-> version[1],
                         proof_id |-> proof_id[1],
                         proof_type |-> proof_type[1],
                         zk_sdk_version |-> zk_sdk_version[1],
                         data |-> data[1],
                         metadata |-> metadata[1] ])

\* serde_json::from_str on the file content: text that is not JSON is an error
from_str(f) ==
    IF f.kind = "json" THEN ImportableProof_from_json(f.root[1]) ELSE None

\* import_proof_from_file: the Result and its envelope
import_proof_from_file(f) ==
    IF f.kind = "absent" THEN [status |-> "Err: io", proof |-> None]
    ELSE IF from_str(f) = None
        THEN [status |-> "Err: Failed to parse proof JSON", proof |-> None]
    ELSE [status |-> "Ok", proof |-> from_str(f)]

\* import_and_verify_proof returning the envelope without verifying it
import_and_verify_proof_unverified(f, t) == import_proof_from_file(f)

\* import_and_verify_proof
import_and_verify_proof(f, t) ==
    LET r == import_proof_from_file(f)
    IN  IF r.status # "Ok" THEN r
        ELSE IF ~is_proof_valid(r.proof[1], t)
            THEN [status |-> "Err: Proof verification failed", proof |-> None]
        ELSE r

----------------------------------------------------------------------------
(* confidential_ops.rs *)

\* transfer_ct_with_proof trusting the "pre-verified" envelope
transfer_ct_with_proof_unverified(p, t, rpcOk) ==
    IF p.proof_type # "Transfer" THEN "Err: Expected a transfer proof"
    ELSE IF ~rpcOk THEN "Err: rpc"
    ELSE "Ok"

\* transfer_ct_with_proof at instant t; rpcOk tells whether the RPC calls
\* (get_token_mint, get_latest_blockhash, send_and_confirm) all succeed
transfer_ct_with_proof(p, t, rpcOk) ==
    LET verification_result == verify_proof(p, DefaultConfig, t)
    IN  IF verification_result.tag # "Ok" THEN "Err: Proof verification failed"
        ELSE IF ~verification_result.is_valid THEN "Err: Invalid transfer proof"
        ELSE IF p.proof_type # "Transfer" THEN "Err: Expected a transfer proof"
        ELSE IF ~rpcOk THEN "Err: rpc"
        ELSE "Ok"

withdraw_ct_with_proof(p, t, rpcOk) ==
    LET verification_result == verify_proof(p, DefaultConfig, t)
    IN  IF verification_result.tag # "Ok" THEN "Err: Proof verification failed"
        ELSE IF ~verification_result.is_valid THEN "Err: Invalid withdraw proof"
        ELSE IF p.proof_type # "Withdraw" THEN "Err: Expected a withdraw proof"
        ELSE IF ~rpcOk THEN "Err: rpc"
        ELSE "Ok"

----------------------------------------------------------------------------
(* State machine *)

NoOp == [op |-> "none", outcome |-> "none"]
NoGate == [checked |-> FALSE, consumer |-> FALSE, producer |-> None]

\* no file at the path
NoFile == [kind |-> "absent", root |-> None]

\* no command is running
NoFlow == [cmd |-> "none", pc |-> "idle", proof |-> None, amount |-> 0, verifications |-> 0]

\* nothing imported yet
NoImport == [op |-> "none", status |-> "none", proof |-> None]

Init ==
    /\ proof \in ImportableProof
    /\ config \in VerificationConfig
    /\ now = 0
    /\ result = NoResult
    /\ calledAt = None
    /\ gate = NoGate
    /\ ledger = {}
    /\ opStatus = NoOp
    /\ upgradeRet = "none"
    /\ file = NoFile
    /\ imported = NoImport
    /\ flow = NoFlow

\* the wall clock advances
Tick ==
    /\ \E t \in Clock : t > now /\ now' = t
    /\ UNCHANGED <<proof, config, result, calledAt, gate, ledger, opStatus, upgradeRet, file, imported, flow>>

\* a caller runs verify_proof on the envelope under its configuration
VerifyProof ==
    /\ result' = verify_proof(proof, config, now)
    /\ calledAt' = Some(now)
    /\ UNCHANGED <<proof, config, now, gate, ledger, opStatus, upgradeRet, file, imported, flow>>

\* the Version Gate is asked about the envelope, on the consumer side
\* (is_version_compatible) and on the producer side
\* (check_version_compatibility)
CheckVersion ==
    /\ gate' = [checked |-> TRUE,
                consumer |-> is_version_compatible(proof),
                producer |-> check_version_compatibility(proof)]
    /\ UNCHANGED <<proof, config, now, result, calledAt, ledger, opStatus, upgradeRet, file, imported, flow>>

TransferCtWithProof ==
    /\ Cardinality(ledger) < MaxLedger
    /\ \E amount \in OpAmounts, rpcOk \in BOOLEAN :
          LET outcome == transfer_ct_with_proof(proof, now, rpcOk)
          IN  /\ opStatus' = [op |-> "transfer", outcome |-> outcome]
              /\ ledger' = IF outcome = "Ok"
                           THEN ledger \cup {[op |-> "transfer", amount |-> amount, at |-> now]}
                           ELSE ledger
    /\ UNCHANGED <<proof, config, now, result, calledAt, gate, upgradeRet, file, imported, flow>>

WithdrawCtWithProof ==
    /\ Cardinality(ledger) < MaxLedger
    /\ \E amount \in OpAmounts, rpcOk \in BOOLEAN :
          LET outcome == withdraw_ct_with_proof(proof, now, rpcOk)
          IN  /\ opStatus' = [op |-> "withdraw", outcome |-> outcome]
              /\ ledger' = IF outcome = "Ok"
                           THEN ledger \cup {[op |-> "withdraw", amount |-> amount, at |-> now]}
                           ELSE ledger
    /\ UNCHANGED <<proof, config, now, result, calledAt, gate, upgradeRet, file, imported, flow>>

\* the Version Gate upgrades the envelope in place
UpgradeProof ==
    /\ LET r == upgrade_proof_to_current_version(proof)
       IN  /\ proof' = r.proof
           /\ upgradeRet' = r.ret
    /\ UNCHANGED <<config, now, result, calledAt, gate, ledger, opStatus, file, imported, flow>>

Next ==
    \/ Tick
    \/ VerifyProof

\* the Verification Dispatcher: any envelope, any configuration, the clock
Spec == Init /\ [][Next]_vars

LedgerInit == Init /\ config = DefaultConfig

LedgerNext ==
    \/ Tick
    \/ TransferCtWithProof
    \/ WithdrawCtWithProof

\* the ledger entry points: any envelope, the clock
LedgerSpec == LedgerInit /\ [][LedgerNext]_vars

GateInit == Init /\ config = DefaultConfig

GateNext == CheckVersion

\* the Version Gate: any envelope
GateSpec == GateInit /\ [][GateNext]_vars

\* the export path writes the envelope to the file
ExportToFile ==
    /\ file' = write_proof_file(proof)
    /\ UNCHANGED <<proof, config, now, result, calledAt, gate, ledger, opStatus, upgradeRet, imported, flow>>

RootKeys == {"version", "proof_id", "proof_type", "zk_sdk_version", "data", "metadata"}
OptionalKeys == {"source_address", "destination_address", "mint_address", "amount"}
MetadataKeys == OptionalKeys \cup {"timestamp"}

\* what happens to the written file before it is read: it is removed,
\* replaced by text that is not JSON or by JSON that is not an object, or one
\* of its keys is dropped, given a value of another type, or added
Edits ==
    { [op |-> o, scope |-> "file", key |-> "", as |-> ""] : o \in {"remove", "text", "scalar"} }
    \cup { [op |-> "drop", scope |-> "root", key |-> k, as |-> ""] : k \in RootKeys }
    \cup { [op |-> "drop", scope |-> "metadata", key |-> k, as |-> ""] : k \in MetadataKeys }
    \cup { [op |-> "set", scope |-> "root", key |-> k, as |-> a] :
             k \in RootKeys, a \in {"number", "null"} }
    \cup { [op |-> "set", scope |-> "root", key |-> "proof_type", as |-> "text"] }
    \cup { [op |-> "set", scope |-> "metadata", key |-> k, as |-> "number"] :
             k \in MetadataKeys \ {"amount"} }
    \cup { [op |-> "set", scope |-> "metadata", key |-> k, as |-> "null"] : k \in MetadataKeys }
    \cup { [op |-> "set", scope |-> "metadata", key |-> "amount", as |-> a] :
             a \in {"text", "negative"} }
    \cup { [op |-> "set", scope |-> "root", key |-> "extra", as |-> "number"] }

Replacement(a) ==
    CASE a = "number" -> JNum(7)
      [] a = "negative" -> JNum(-1)
      [] a = "text" -> JStr("?")
      [] a = "null" -> JNull

Drop(o, k) == [x \in DOMAIN o \ {k} |-> o[x]]
Put(o, k, j) == [x \in DOMAIN o \cup {k} |-> IF x = k THEN j ELSE o[x]]

ApplyEdit(e, f) ==
    LET o == f.root[1].v[1]
        m == o["metadata"].v[1]
        root(r) == [kind |-> "json", root |-> Some(JObj(r))]
    IN  CASE e.op = "remove" -> NoFile
          [] e.op = "text" -> [kind |-> "text", root |-> None]
          [] e.op = "scalar" -> [kind |-> "json", root |-> Some(JStr("?"))]
          [] e.op = "drop" /\ e.scope = "root" -> root(Drop(o, e.key))
          [] e.op = "drop" /\ e.scope = "metadata" ->
                root(Put(o, "metadata", JObj(Drop(m, e.key))))
          [] e.op = "set" /\ e.scope = "root" -> root(Put(o, e.key, Replacement(e.as)))
          [] e.op = "set" /\ e.scope = "metadata" ->
                root(Put(o, "metadata", JObj(Put(m, e.key, Replacement(e.as)))))

\* the file as written is altered once before it is read
EditFile ==
    /\ file = write_proof_file(proof)
    /\ \E e \in Edits : file' = ApplyEdit(e, file)
    /\ UNCHANGED <<proof, config, now, result, calledAt, gate, ledger, opStatus, upgradeRet, imported, flow>>

ImportProofFromFile ==
    /\ LET r == import_proof_from_file(file)
       IN  imported' = [op |-> "import_proof_from_file", status |-> r.status, proof |-> r.proof]
    /\ UNCHANGED <<proof, config, now, result, calledAt, gate, ledger, opStatus, upgradeRet, file, flow>>

ImportAndVerifyProof ==
    /\ LET r == import_and_verify_proof(file, now)
       IN  imported' = [op |-> "import_and_verify_proof", status |-> r.status, proof |-> r.proof]
    /\ UNCHANGED <<proof, config, now, result, calledAt, gate, ledger, opStatus, upgradeRet, file, flow>>

\* the envelopes that are exported: every combination of absent and present
\* optional fields, with a mint too; versions "1.0.0" and "1.0", two kinds,
\* a payload that is not base64, a short one and a sound one
CodecProofs ==
    { [p EXCEPT !.metadata.mint_address = m] :
        p \in { q \in ImportableProof :
                  /\ q.version \in {<<"1", "0", "0">>, <<"1", "0">>}
                  /\ q.proof_type \in {"Transfer", "PubkeyValidity"}
                  /\ (q.data.b64 => q.data.json /\ (q.data.len = 31 \/ q.data.sound)) },
        m \in {None, Some("M")} }

CodecInit ==
    /\ proof \in CodecProofs
    /\ config = DefaultConfig
    /\ now = 0
    /\ result = NoResult
    /\ calledAt = None
    /\ gate = NoGate
    /\ ledger = {}
    /\ opStatus = NoOp
    /\ upgradeRet = "none"
    /\ file = NoFile
    /\ imported = NoImport
    /\ flow = NoFlow

CodecNext ==
    \/ ExportToFile
    \/ EditFile
    \/ ImportProofFromFile
    \/ ImportAndVerifyProof

\* the Envelope Codec: export, the file in between, import
CodecSpec == CodecInit /\ [][CodecNext]_vars

\* max_proof_age_seconds over the whole unsigned range: small values and
\* the edges of the regions that `as i64` and Duration::seconds distinguish
WideMaxAges ==
    { 0, 3600, 7200, I64_MAX \div 1000, I64_MAX \div 1000 + 1, I64_MAX, I64_MAX + 1,
      U64_MAX - I64_MAX \div 1000, U64_MAX - I64_MAX \div 1000 + 1, U64_MAX - 3600, U64_MAX }

\* envelopes that pass everything but possibly the expiry check
ExpiryProofs ==
    { q \in ImportableProof :
        /\ q.version = <<"1", "0", "0">>
        /\ q.proof_type \in {"Transfer", "Withdraw"}
        /\ q.data.sound
        /\ q.metadata.source_address # None
        /\ q.metadata.destination_address # None
        /\ q.metadata.amount # None }

ExpiryInit ==
    /\ proof \in ExpiryProofs
    /\ config \in [ max_proof_age_seconds : WideMaxAges,
                     verify_crypto : BOOLEAN,
                     check_version : BOOLEAN ]
    /\ now = 0
    /\ result = NoResult
    /\ calledAt = None
    /\ gate = NoGate
    /\ ledger = {}
    /\ opStatus = NoOp
    /\ upgradeRet = "none"
    /\ file = NoFile
    /\ imported = NoImport
    /\ flow = NoFlow

ExpiryNext ==
    \/ Tick
    \/ VerifyProof

\* the Temporal Validator under any max_proof_age_seconds a caller can set
ExpirySpec == ExpiryInit /\ [][ExpiryNext]_vars

\* florin-zk exports a transfer proof: it builds the envelope and writes the
\* file; one export per behaviour
ExportTransferProofWithMint ==
    /\ file = NoFile
    /\ \E amount \in OpAmounts, source_pubkey \in Addresses,
          destination_pubkey \in {None, Some("B")}, mint_address \in {None, Some("M")} :
          proof' = export_transfer_proof_with_mint(amount, source_pubkey,
                                                   destination_pubkey, mint_address, now)
    /\ file' = write_proof_file(proof')
    /\ UNCHANGED <<config, now, result, calledAt, gate, ledger, opStatus, upgradeRet, imported, flow>>

ExportWithdrawProofWithMint ==
    /\ file = NoFile
    /\ \E amount \in OpAmounts, source_pubkey \in Addresses, mint_address \in {None, Some("M")} :
          proof' = export_withdraw_proof_with_mint(amount, source_pubkey, mint_address, now)
    /\ file' = write_proof_file(proof')
    /\ UNCHANGED <<config, now, result, calledAt, gate, ledger, opStatus, upgradeRet, imported, flow>>

\* the kind a command expects
ExpectedKind(cmd) == IF cmd = "import-transfer-proof" THEN "Transfer" ELSE "Withdraw"

\* main.rs, import-transfer-proof and import-withdraw-proof up to the call of
\* the ledger operation: import_and_verify_proof on the path, which runs
\* verify_proof when the file was read, then the check of the kind
FlowImport ==
    /\ flow.pc = "idle"
    /\ \E cmd \in {"import-transfer-proof", "import-withdraw-proof"}, amount \in OpAmounts :
          LET r == import_and_verify_proof(file, now)
              runs == IF import_proof_from_file(file).status = "Ok" THEN 1 ELSE 0
              pc == IF r.status # "Ok" THEN "failed"
                    ELSE IF r.proof[1].proof_type # ExpectedKind(cmd) THEN "failed"
                    ELSE "verified"
          IN  /\ imported' = [op |-> "import_and_verify_proof", status |-> r.status,
                              proof |-> r.proof]
              /\ flow' = [cmd |-> cmd, pc |-> pc, proof |-> r.proof, amount |-> amount,
                          verifications |-> runs]
    /\ UNCHANGED <<proof, config, now, result, calledAt, gate, ledger, opStatus, upgradeRet, file>>

\* main.rs: the command awaits transfer_ct_with_proof / withdraw_ct_with_proof
\* on the loaded envelope, which runs verify_proof
FlowSubmit ==
    /\ flow.pc = "verified"
    /\ Cardinality(ledger) < MaxLedger
    /\ \E rpcOk \in BOOLEAN :
          LET op == IF flow.cmd = "import-transfer-proof" THEN "transfer" ELSE "withdraw"
              outcome == IF op = "transfer"
                         THEN transfer_ct_with_proof(flow.proof[1], now, rpcOk)
                         ELSE withdraw_ct_with_proof(flow.proof[1], now, rpcOk)
          IN  /\ opStatus' = [op |-> op, outcome |-> outcome]
              /\ ledger' = IF outcome = "Ok"
                           THEN ledger \cup {[op |-> op, amount |-> flow.amount, at |-> now]}
                           ELSE ledger
              /\ flow' = [flow EXCEPT !.pc = IF outcome = "Ok" THEN "submitted" ELSE "failed",
                                      !.verifications = @ + 1]
    /\ UNCHANGED <<proof, config, now, result, calledAt, gate, upgradeRet, file, imported>>

\* the command returns
FlowExit ==
    /\ flow.pc \in {"submitted", "failed"}
    /\ flow' = NoFlow
    /\ UNCHANGED <<proof, config, now, result, calledAt, gate, ledger, opStatus, upgradeRet, file, imported>>

PipelineInit ==
    /\ proof \in ExpiryProofs
    /\ config = DefaultConfig
    /\ now = 0
    /\ result = NoResult
    /\ calledAt = None
    /\ gate = NoGate
    /\ ledger = {}
    /\ opStatus = NoOp
    /\ upgradeRet = "none"
    /\ file = NoFile
    /\ imported = NoImport
    /\ flow = NoFlow

PipelineNext ==
    \/ Tick
    \/ ExportTransferProofWithMint
    \/ ExportWithdrawProofWithMint
    \/ FlowImport
    \/ FlowSubmit
    \/ FlowExit

\* producer to consumer: florin-zk exports an envelope, florin-core's
\* commands import it, verify it and submit
PipelineSpec == PipelineInit /\ [][PipelineNext]_vars

UpgradeInit == Init /\ config = DefaultConfig

UpgradeNext ==
    \/ CheckVersion
    \/ UpgradeProof
    \/ VerifyProof

\* the Version Gate with its upgrade step, and verification of the envelope
\* in hand
UpgradeSpec == UpgradeInit /\ [][UpgradeNext]_vars

----------------------------------------------------------------------------
(* Vocabulary of the properties *)

Called == calledAt # None

\* the envelope's age at instant t exceeds max
AgeExceeds(p, max, t) ==
    /\ p.metadata.timestamp.rfc3339
    /\ t - p.metadata.timestamp.secs > max

\* the version text is major.minor.patch, all three decimal numbers
IsSemver(v) == Len(v) = 3 /\ \A i \in 1..3 : v[i] \in DecimalTexts

\* position of a version triple in semantic-version order (parts are below 10)
Rank(t) == t[1] * 100 + t[2] * 10 + t[3]

RankOfText(v) == DecimalValue(v[1]) * 100 + DecimalValue(v[2]) * 10 + DecimalValue(v[3])

\* MIN_SUPPORTED_VERSION <= v <= CURRENT_VERSION
InSupportedRange(v) ==
    /\ IsSemver(v)
    /\ Rank(MIN_SUPPORTED_DTO_VERSION) <= RankOfText(v)
    /\ RankOfText(v) <= Rank(CURRENT_DTO_VERSION)

TransferKinds == {"Transfer", "TransferWithProof"}
WithdrawKinds == {"Withdraw", "WithdrawWithProof"}

\* the metadata the Structural Validator table requires for the kind
RequiredPresent(p) ==
    /\ p.proof_type \in TransferKinds =>
          /\ p.metadata.source_address # None
          /\ p.metadata.destination_address # None
          /\ p.metadata.amount # None
    /\ p.proof_type \in WithdrawKinds =>
          /\ p.metadata.source_address # None
          /\ p.metadata.amount # None

PayloadAtLeastFloor(p) ==
    p.data.b64 /\ p.data.json /\ p.data.len >= MIN_PROOF_DATA_LEN

----------------------------------------------------------------------------
(* Properties *)

\* C1: verify_proof returns Valid only for an envelope that at the time of
\* the call is not expired, has a schema version in the supported range
\* (when check_version is enabled), has a supported kind with its required
\* metadata, and has a payload decoding to at least 32 bytes.
C1_ValidOnlyWhenAllChecksPass ==
    result.is_valid =>
        /\ ~AgeExceeds(proof, config.max_proof_age_seconds, calledAt[1])
        /\ config.check_version => InSupportedRange(proof.version)
        /\ proof.proof_type \in ProofTypes
        /\ RequiredPresent(proof)
        /\ PayloadAtLeastFloor(proof)

\* C2: an envelope whose age exceeds max_age is rejected with ExpiredProof
\* whatever its kind, version, metadata and payload.
C2_ExpirationFirst ==
    (Called /\ AgeExceeds(proof, config.max_proof_age_seconds, calledAt[1]))
        => result = Err("ExpiredProof", "")

\* an expired PubkeyValidity envelope with a bad version, no source address
\* and an undecodable payload was rejected as expired
C2_Witness ==
    /\ Called
    /\ AgeExceeds(proof, config.max_proof_age_seconds, calledAt[1])
    /\ proof.proof_type = "PubkeyValidity"
    /\ proof.version = <<"2", "0", "0">>
    /\ proof.metadata.source_address = None
    /\ ~proof.data.b64
    /\ config.check_version
    /\ result.tag = "ExpiredProof"

\* C3: with check_version enabled, a non-expired envelope with an
\* incompatible schema version is rejected with InvalidVersion, also when it
\* lacks metadata or has a bad payload.  (Restricted to versions that both
\* the supported range and is_version_compatible reject.)
C3_VersionBeforeStructure ==
    ( /\ Called
      /\ ~AgeExceeds(proof, config.max_proof_age_seconds, calledAt[1])
      /\ config.check_version
      /\ ~InSupportedRange(proof.version)
      /\ ~is_version_compatible(proof) )
        => result.tag = "InvalidVersion"

LedgerOpStep == TransferCtWithProof \/ WithdrawCtWithProof

\* C4: every submitted transaction was submitted at an instant at which
\* verify_proof (default configuration) gives the envelope Valid, and an
\* operation on an envelope verify_proof rejects returns an error and
\* submits nothing.
C4_SubmitOnlyAfterValid ==
    /\ [](\A tx \in ledger : verify_proof(proof, DefaultConfig, tx.at).is_valid)
    /\ [][ (LedgerOpStep /\ ~verify_proof(proof, DefaultConfig, now).is_valid)
              => (ledger' = ledger /\ opStatus'.outcome # "Ok") ]_vars

\* a transfer was submitted while the envelope was fresh, and a later
\* attempt, after it expired, was refused
C4_Witness ==
    /\ \E tx \in ledger : tx.op = "transfer"
    /\ opStatus = [op |-> "transfer", outcome |-> "Err: Proof verification failed"]
    /\ verify_proof(proof, DefaultConfig, now).tag = "ExpiredProof"

\* C5: both compatibility predicates are true iff
\* MIN_SUPPORTED_VERSION <= schema_version <= CURRENT_VERSION.
C5_CompatibleIffInRange ==
    gate.checked =>
        /\ gate.consumer = InSupportedRange(proof.version)
        /\ (gate.producer = Some(TRUE)) = InSupportedRange(proof.version)

\* C6: an envelope whose schema_version is not a major.minor.patch semantic
\* version is never reported compatible and never gets Valid (stated with
\* check_version enabled).
C6_UnparseableVersionRejected ==
    (Called /\ config.check_version /\ ~IsSemver(proof.version)) =>
        /\ ~is_version_compatible(proof)
        /\ ~result.is_valid

\* C7: an envelope whose created_at does not parse never gets Valid.
C7_UnparseableTimestampRejected ==
    ~proof.metadata.timestamp.rfc3339 => ~result.is_valid

\* C8: the envelope is reported expired iff now - created_at strictly
\* exceeds max_age, and as now advances the verdict on the same envelope
\* never goes from ExpiredProof back to another outcome.
C8_ExpiryStrictAndMonotone ==
    /\ []( (Called /\ proof.metadata.timestamp.rfc3339) =>
              ( (result.tag = "ExpiredProof")
                  <=> (calledAt[1] - proof.metadata.timestamp.secs
                          > config.max_proof_age_seconds) ) )
    /\ [][ result.tag = "ExpiredProof" => result'.tag = "ExpiredProof" ]_vars

\* an envelope whose age equals max_age exactly was verified and found Valid
C8_Witness ==
    /\ Called
    /\ proof.metadata.timestamp.rfc3339
    /\ calledAt[1] - proof.metadata.timestamp.secs = config.max_proof_age_seconds
    /\ result.is_valid

\* the first absent one of source_address, destination_address, amount
FirstAbsent(p) ==
    IF p.metadata.source_address = None THEN "source_address"
    ELSE IF p.metadata.destination_address = None /\ p.proof_type \in TransferKinds
        THEN "destination_address"
    ELSE "amount"

\* the envelope with every metadata field of a transfer supplied
WithAllMetadata(p) ==
    [p EXCEPT !.metadata.source_address =
                  IF @ = None THEN Some("A") ELSE @,
              !.metadata.destination_address =
                  IF @ = None THEN Some("B") ELSE @,
              !.metadata.amount =
                  IF @ = None THEN Some(100) ELSE @]

\* C9: a Transfer envelope that would be Valid with all its metadata, but
\* lacks source_address, destination_address or amount, fails with
\* MissingMetadata naming the first absent field in that order.
C9_TransferMissingMetadata ==
    ( /\ Called
      /\ proof.proof_type \in TransferKinds
      /\ verify_proof(WithAllMetadata(proof), config, calledAt[1]).is_valid
      /\ ~RequiredPresent(proof) )
        => result = Err("MissingMetadata", FirstAbsent(proof))

\* an otherwise valid Transfer envelope lacking only destination_address
\* was rejected with MissingMetadata("destination_address")
C9_Witness ==
    /\ Called
    /\ proof.proof_type = "Transfer"
    /\ verify_proof(WithAllMetadata(proof), config, calledAt[1]).is_valid
    /\ proof.metadata.source_address # None
    /\ proof.metadata.destination_address = None
    /\ proof.metadata.amount # None
    /\ result = Err("MissingMetadata", "destination_address")

\* C10: a Withdraw envelope that would be Valid with its metadata, but lacks
\* source_address or amount, fails with MissingMetadata (source_address
\* first); and the outcome is the same whether destination_address is
\* present or absent.
C10_WithdrawMetadata ==
    (Called /\ proof.proof_type \in WithdrawKinds) =>
        /\ ( /\ verify_proof(WithAllMetadata(proof), config, calledAt[1]).is_valid
             /\ ~RequiredPresent(proof) )
              => result = Err("MissingMetadata", FirstAbsent(proof))
        /\ \A d \in {None, Some("B")} :
              verify_proof([proof EXCEPT !.metadata.destination_address = d],
                           config, calledAt[1]) = result

\* a Withdraw envelope without destination_address was found Valid
C10_Witness ==
    /\ Called
    /\ proof.proof_type = "Withdraw"
    /\ proof.metadata.destination_address = None
    /\ result.is_valid

\* the envelope gets as far as the size check of verify_transfer_proof /
\* verify_withdraw_proof when verified at instant t
ReachesSizeCheck(p, c, t) ==
    /\ ~AgeExceeds(p, c.max_proof_age_seconds, t)
    /\ p.proof_type \in TransferKinds \cup WithdrawKinds
    /\ RequiredPresent(p)
    /\ c.check_version => is_version_compatible(p)
    /\ p.data.b64 /\ p.data.json

TooSmall == Err("InvalidStructure", "proof data too small")

C12_PubkeyValidityStructural ==
    ( /\ Called
      /\ proof.proof_type = "PubkeyValidity"
      /\ ~AgeExceeds(proof, config.max_proof_age_seconds, calledAt[1])
      /\ InSupportedRange(proof.version)
      /\ proof.data.b64 /\ proof.data.json )
        => /\ result.tag # "InvalidProofType"
           /\ IF proof.data.len < 32 THEN result = TooSmall ELSE result.is_valid

\* the envelope with a legacy kind replaced by its modern counterpart
Modern(p) ==
    [p EXCEPT !.proof_type =
        IF @ = "TransferWithProof" THEN "Transfer"
        ELSE IF @ = "WithdrawWithProof" THEN "Withdraw"
        ELSE @]

\* the verdict without its human-readable message
Verdict(r) == <<r.tag, r.is_valid, r.detail>>

\* C13: replacing a legacy kind by its modern counterpart changes neither
\* the outcome of verify_proof and validate_proof nor the decision of
\* transfer_ct_with_proof / withdraw_ct_with_proof.
C13_LegacyEquivalent ==
    /\ []( /\ Verdict(verify_proof(proof, config, now))
               = Verdict(verify_proof(Modern(proof), config, now))
           /\ validate_proof(proof) = validate_proof(Modern(proof)) )
    /\ [][ TransferCtWithProof =>
             \E rpcOk \in BOOLEAN :
                opStatus'.outcome = transfer_ct_with_proof(Modern(proof), now, rpcOk) ]_vars
    /\ [][ WithdrawCtWithProof =>
             \E rpcOk \in BOOLEAN :
                opStatus'.outcome = withdraw_ct_with_proof(Modern(proof), now, rpcOk) ]_vars

\* C14: with check_version disabled the outcome does not depend on
\* schema_version; with it enabled, an otherwise valid envelope whose
\* version is outside the supported range gets InvalidVersion.
C14_VersionCheckSkippable ==
    Called =>
        /\ ~config.check_version =>
              \A v \in Versions :
                  verify_proof([proof EXCEPT !.version = v], config, calledAt[1]) = result
        /\ ( /\ config.check_version
             /\ ~InSupportedRange(proof.version)
             /\ verify_proof([proof EXCEPT !.version = <<"1", "0", "0">>],
                             config, calledAt[1]).is_valid )
              => result.tag = "InvalidVersion"

\* C15: with verify_crypto enabled, an envelope that passed the structural
\* checks is Valid iff the cryptographic verifier accepts its payload, and
\* gets VerificationFailed otherwise; with verify_crypto disabled it is
\* Valid on structural success alone.
C15_CryptoDecidesVerdict ==
    ( /\ Called
      /\ verify_proof(proof, [config EXCEPT !.verify_crypto = FALSE],
                      calledAt[1]).is_valid )
        => IF config.verify_crypto
           THEN /\ result.is_valid = proof.data.sound
                /\ ~proof.data.sound => result.tag = "VerificationFailed"
           ELSE result.is_valid

\* the version parses and is strictly below CURRENT_VERSION
BelowCurrent(v) == IsSemver(v) /\ RankOfText(v) < Rank(CURRENT_DTO_VERSION)

\* C18 as stated: upgrade returns true and leaves schema_version =
\* CURRENT_VERSION exactly when the version was strictly below
\* CURRENT_VERSION; otherwise it is a no-op returning false.
C18_UpgradeTrueOrFalse ==
    [][ UpgradeProof =>
          IF BelowCurrent(proof.version)
          THEN upgradeRet' = "true" /\ proof'.version = CURRENT_DTO_VERSION_TEXT
          ELSE upgradeRet' = "false" /\ proof' = proof ]_vars

\* C18 amended: as above, except that with a version that does not parse
\* the no-op returns an error instead of false; after a successful upgrade
\* needs_upgrade is false and a second upgrade returns false and changes
\* nothing.
C18_UpgradeIdempotent ==
    /\ [][ UpgradeProof =>
             IF BelowCurrent(proof.version)
             THEN upgradeRet' = "true" /\ proof'.version = CURRENT_DTO_VERSION_TEXT
             ELSE /\ proof' = proof
                  /\ upgradeRet' = IF IsSemver(proof.version) THEN "false" ELSE "Err" ]_vars
    /\ [](upgradeRet = "true" => needs_upgrade(proof) = Some(FALSE))
    /\ [][ (UpgradeProof /\ upgradeRet = "true")
             => (upgradeRet' = "false" /\ proof' = proof) ]_vars

\* an envelope was upgraded and now needs no upgrade
C18_Witness ==
    /\ upgradeRet = "true"
    /\ proof.version = CURRENT_DTO_VERSION_TEXT
    /\ needs_upgrade(proof) = Some(FALSE)

\* C19: no operation of the gate turns an envelope whose version is outside
\* the supported range (below MIN_SUPPORTED_VERSION in particular) into a
\* compatible one.
C19_NoUpgradeBelowFloor ==
    [][ ~InSupportedRange(proof.version) => ~InSupportedRange(proof'.version) ]_vars

\* C20: the envelope changes only in an upgrade that returns true, and then
\* only in its schema version; verification and compatibility checks leave
\* it alone.
C20_OnlyUpgradeMutates ==
    /\ [][ proof' # proof =>
             /\ UpgradeProof
             /\ upgradeRet' = "true"
             /\ proof' = [proof EXCEPT !.version = proof'.version] ]_vars
    /\ [][ (UpgradeProof /\ upgradeRet' \in {"false", "Err"}) => proof' = proof ]_vars
    /\ [][ (VerifyProof \/ CheckVersion) => proof' = proof ]_vars

\* an envelope was upgraded and afterwards verified
C20_Witness ==
    /\ upgradeRet = "true"
    /\ Called
    /\ result.tag # "None"
    /\ proof.proof_id = "id1"
    /\ proof.metadata.amount # None

\* C16: import_proof_from_file on the file that the serialization of an
\* envelope wrote yields that envelope, equal field for field, absent
\* optional fields included.
C16_RoundTrip ==
    [][ (ImportProofFromFile /\ file = write_proof_file(proof)) =>
          /\ imported'.status = "Ok"
          /\ imported'.proof = Some(proof) ]_vars

\* an envelope without mint and destination came back from its file
C16_Witness ==
    /\ imported.op = "import_proof_from_file"
    /\ imported.status = "Ok"
    /\ imported.proof = Some(proof)
    /\ file = write_proof_file(proof)
    /\ proof.metadata.mint_address = None
    /\ proof.metadata.destination_address = None
    /\ proof.metadata.amount # None

\* the envelope file format: which keys an object has and of which types
Has(o, k) == k \in DOMAIN o
TypeOk(o, k, types) == Has(o, k) => o[k].t \in types
WrongTypes(f) ==
    \/ f.root[1].t # "object"
    \/ LET o == f.root[1].v[1]
       IN  \/ \E k \in RootKeys \ {"metadata", "proof_type"} : ~TypeOk(o, k, {"string"})
           \/ ~TypeOk(o, "metadata", {"object"})
           \/ ~TypeOk(o, "proof_type", {"string"})
           \/ (Has(o, "proof_type") /\ o["proof_type"].t = "string"
                 /\ o["proof_type"].v[1] \notin ProofTypes)
           \/ /\ Has(o, "metadata") /\ o["metadata"].t = "object"
              /\ LET m == o["metadata"].v[1]
                 IN  \/ \E k \in OptionalKeys \ {"amount"} : ~TypeOk(m, k, {"string", "null"})
                     \/ ~TypeOk(m, "amount", {"number", "null"})
                     \/ (Has(m, "amount") /\ m["amount"].t = "number" /\ m["amount"].v[1] < 0)
                     \/ ~TypeOk(m, "timestamp", {"string"})

\* some of the given keys of the envelope or of its metadata is missing
Missing(f, rootKeys, metadataKeys) ==
    /\ f.root[1].t = "object"
    /\ LET o == f.root[1].v[1]
       IN  \/ \E k \in rootKeys : ~Has(o, k)
           \/ /\ Has(o, "metadata") /\ o["metadata"].t = "object"
              /\ \E k \in metadataKeys : ~Has(o["metadata"].v[1], k)

NotAnEnvelope(f, metadataKeys) ==
    \/ f.kind \in {"absent", "text"}
    \/ f.kind = "json" /\ (WrongTypes(f) \/ Missing(f, RootKeys, metadataKeys))

ImportStep == ImportProofFromFile \/ ImportAndVerifyProof

\* C17 as stated: both imports return an error and no envelope when the file
\* does not exist or is not a well-formed envelope (invalid JSON, any field
\* missing, a field of the wrong type); import_and_verify_proof returns an
\* envelope only when the import succeeded and the verdict was Valid.
C17_ImportErrors ==
    [][ ImportStep =>
          /\ NotAnEnvelope(file, MetadataKeys) =>
                (imported'.status # "Ok" /\ imported'.proof = None)
          /\ (ImportAndVerifyProof /\ imported'.proof # None) =>
                /\ import_proof_from_file(file).status = "Ok"
                /\ verify_proof(imported'.proof[1], DefaultConfig, now).is_valid ]_vars

\* C17 amended: as above, where the missing fields are the ones that are not
\* optional; a missing optional metadata key reads as an absent value. An
\* error never comes with an envelope.
C17_ImportErrorsRequiredFields ==
    [][ ImportStep =>
          /\ NotAnEnvelope(file, {"timestamp"}) =>
                (imported'.status # "Ok" /\ imported'.proof = None)
          /\ imported'.status # "Ok" => imported'.proof = None
          /\ (ImportAndVerifyProof /\ imported'.proof # None) =>
                /\ import_proof_from_file(file).status = "Ok"
                /\ verify_proof(imported'.proof[1], DefaultConfig, now).is_valid
          /\ \A k \in OptionalKeys :
                (file.kind = "json" /\ ~WrongTypes(file)
                   /\ Missing(file, {}, {k}) /\ ImportProofFromFile) =>
                     /\ imported'.status = "Ok"
                     /\ imported'.proof[1].metadata[k] = None ]_vars

\* import_and_verify_proof failed to parse a file that holds JSON
C17_Witness ==
    /\ imported.op = "import_and_verify_proof"
    /\ imported.status = "Err: Failed to parse proof JSON"
    /\ imported.proof = None
    /\ file.kind = "json"
    /\ WrongTypes(file)

\* C23: whatever max_proof_age_seconds is, verify_proof ends in a typed
\* result and reports ExpiredProof exactly when the age exceeds max_age.
C23_MaxAgeFullRange ==
    Called =>
        /\ result.tag # "Panic"
        /\ (result.tag = "ExpiredProof")
              = AgeExceeds(proof, config.max_proof_age_seconds, calledAt[1])

\* C29: an envelope dated after the instant of the call is never rejected as
\* expired, whatever max_age is.
C29_FutureDatedNotExpired ==
    (Called /\ proof.metadata.timestamp.rfc3339
            /\ proof.metadata.timestamp.secs > calledAt[1])
        => result.tag # "ExpiredProof"

\* the envelope with other values in the fields that are not gated
Ungated(p) ==
    { [p EXCEPT !.proof_id = id, !.zk_sdk_version = sdk, !.metadata.mint_address = mint] :
        id \in {"id1", "id2"}, sdk \in {"0.1.0", "9.9.9"}, mint \in {None, Some("M")} }

\* C24: envelopes that differ only in zk_sdk_version, proof_id or
\* mint_address get the same outcome under the same configuration at the
\* same instant; an absent mint_address never yields MissingMetadata.
C24_UngatedFieldsIgnored ==
    Called =>
        /\ \A q \in Ungated(proof) : verify_proof(q, config, calledAt[1]) = result
        /\ ~(result.tag = "MissingMetadata" /\ result.detail = "mint_address")

\* an envelope without mint_address was found valid
C24_Witness ==
    /\ Called
    /\ result.is_valid
    /\ proof.metadata.mint_address = None
    /\ \E q \in Ungated(proof) : q # proof

\* the envelope passes the temporal check at t and has a version in range
PassesTemporalAndVersion(p, c, t) ==
    /\ ~AgeExceeds(p, c.max_proof_age_seconds, t)
    /\ InSupportedRange(p.version)

\* C25: for an envelope of a transfer or withdraw kind that passes the
\* temporal and version checks, whose payload fails to decode or is below
\* the floor and that also lacks required metadata, the outcome is the
\* payload failure and not MissingMetadata.
C25_PayloadBeforeMetadata ==
    ( /\ Called
      /\ proof.proof_type \in TransferKinds \cup WithdrawKinds
      /\ PassesTemporalAndVersion(proof, config, calledAt[1])
      /\ ~PayloadAtLeastFloor(proof)
      /\ ~RequiredPresent(proof) )
        => result.tag = "InvalidStructure"

\* a Transfer envelope that verify_proof accepts once its payload is sound
\* data of full length
OtherwiseValidTransfer(p, c, t) ==
    /\ p.proof_type = "Transfer"
    /\ p.data.b64 /\ p.data.json
    /\ verify_proof([p EXCEPT !.data.len = 64, !.data.sound = TRUE], c, t).is_valid

C27_NoInvalidSuccess ==
    Called =>
        /\ (result.tag = "Ok") = result.is_valid
        /\ result.tag \in {"Ok", "ExpiredProof", "InvalidProofType", "MissingMetadata",
                           "InvalidVersion", "InvalidStructure", "VerificationFailed"}
        /\ is_proof_valid(proof, calledAt[1])
              = (verify_proof(proof, DefaultConfig, calledAt[1]).tag = "Ok")
        /\ (config = DefaultConfig => is_proof_valid(proof, calledAt[1]) = (result.tag = "Ok"))

\* a typed rejection under the default configuration, for data too small
C27_Witness ==
    /\ Called
    /\ config = DefaultConfig
    /\ result.tag = "InvalidStructure"
    /\ result.detail = "proof data too small"
    /\ ~is_proof_valid(proof, calledAt[1])

\* C28: the result of verify_proof is the same with verify_crypto enabled
\* and disabled, and VerificationFailed is never returned.
C28_VerifyCryptoNoEffect ==
    Called =>
        /\ verify_proof(proof, [config EXCEPT !.verify_crypto = ~config.verify_crypto],
                        calledAt[1]) = result
        /\ result.tag # "VerificationFailed"

\* with verify_crypto enabled, data no verifier would accept was found valid
C28_Witness ==
    /\ Called
    /\ config.verify_crypto
    /\ ~proof.data.sound
    /\ result.is_valid

ExportStep == ExportTransferProofWithMint \/ ExportWithdrawProofWithMint

\* C21: the exported envelope carries CURRENT_VERSION, the export time, the
\* amount and at least 32 bytes of wrapped data, is compatible and needs no
\* upgrade; with source and destination supplied (source for a Withdraw),
\* importing and verifying it less than max_age after the export succeeds.
C21_ProducerConsumerAgree ==
    /\ [][ ExportStep =>
             /\ proof'.metadata.timestamp = [rfc3339 |-> TRUE, secs |-> now]
             /\ proof'.metadata.amount \in {Some(a) : a \in OpAmounts}
             /\ import_proof_from_file(file').proof = Some(proof') ]_vars
    /\ [](file.kind = "json" =>
             /\ proof.version = CURRENT_DTO_VERSION_TEXT
             /\ extract_proof_binary_data(proof) # None
             /\ extract_proof_binary_data(proof)[1] >= 32
             /\ is_version_compatible(proof)
             /\ check_version_compatibility(proof) = Some(TRUE)
             /\ needs_upgrade(proof) = Some(FALSE))
    /\ [][ ( /\ FlowImport
             /\ file.kind = "json"
             /\ RequiredPresent(proof)
             /\ now - proof.metadata.timestamp.secs < DEFAULT_MAX_PROOF_AGE_SECONDS )
           => /\ imported'.status = "Ok"
              /\ imported'.proof = Some(proof)
              /\ verify_proof(imported'.proof[1], DefaultConfig, now).is_valid ]_vars

\* an exported withdraw envelope was imported and found valid some time
\* after the export
C21_Witness ==
    /\ imported.op = "import_and_verify_proof"
    /\ imported.status = "Ok"
    /\ imported.proof = Some(proof)
    /\ file = write_proof_file(proof)
    /\ proof.proof_type = "Withdraw"
    /\ flow.pc = "verified"
    /\ now > proof.metadata.timestamp.secs

\* C22: when a command has submitted its transaction, verify_proof has run
\* on the loaded envelope exactly once.
C22_VerifiedExactlyOnce ==
    flow.pc = "submitted" => flow.verifications = 1

\* C30: every submitted transaction carries the amount that the envelope
\* asserts, and the operation that matches the envelope's kind.
C30_AmountBoundToProof ==
    \A tx \in ledger :
        /\ proof.metadata.amount = Some(tx.amount)
        /\ proof.proof_type = (IF tx.op = "transfer" THEN "Transfer" ELSE "Withdraw")

====
